---- MODULE Spec2Model ----
\* Verification model of the code-review assistant: the metrics recorder
\* (src/metrics.py: class Metrics and the timed decorator) and the reviewer
\* (src/review_logic.py: class CodeReviewer).
\*
\* Python values are modelled as follows.
\*   - dict            : a TLA+ function whose DOMAIN is the dict's key set
\*   - Optional[x]     : <<>> for None, <<x>> for a present value
\*   - int/float that take part in arithmetic mixing the two (the values of
\*     _metrics["issues"], the derived percentages): exact rationals <<n, d>>
\*     in lowest terms with d > 0; float rounding is not modelled
\*   - datetime / time : integers
EXTENDS Integers, Sequences, FiniteSets, TLC

\* ---------------------------------------------------------------- bounds

\* calls made on the recorder in one run (a timed call and its return count
\* as one)
MaxCalls == 3
\* recorder calls made in a run of reviews, issues and repeated snapshots
MaxSnapshotCalls == 4
\* reviewer calls made in a run
MaxReviewCalls == 3
\* nodes below a function whose complexity is calculated
MaxSubnodes == 3
\* files recorded before a summary is printed
MaxSummaryFiles == 6
\* calls made by the concurrent callers of a recorder
MaxConcurrentCalls == 3

\* ---------------------------------------------------------------- inputs

None == <<>>
Some(x) == <<x>>

\* Python truthiness of an Optional[int] and of an Optional[str] argument
TruthyInt(opt) == opt # None /\ opt[1] # 0
TruthyStr(opt) == opt # None /\ opt[1] # ""

Files == {"a.py", "b.py"}

\* the keys _metrics["issues"] is created with
BuiltInTypes == {"security", "performance", "style", "logic", "other"}

\* issue_type arguments: a built-in one, one unknown to the recorder, and one
\* that is the name of a key get_metrics derives
IssueTypes == {"security", "unknown_type", "total"}

\* line numbers are 1-based and descriptions non-empty when given
LineNumbers == {None, Some(1)}
Descriptions == {None, Some("d")}
\* lines_reviewed and total_lines arguments of record_file_review
ReviewedLines == {0, 1, 2}
TotalLines == {0, 2}
\* files and lines arguments of set_total_codebase_size
CodebaseFiles == {0, 2}
CodebaseLines == {0, 4}
TimingCategories == {"parsing", "analysis"}
TimedFilenames == {None, Some("a.py")}
ElapsedTimes == {1, 2}
\* datetime.now() when a snapshot is taken
Clock == {1}

\* ------------------------------------------------------------- rationals

RECURSIVE GCD(_, _)
GCD(a, b) == IF b = 0 THEN a ELSE GCD(b, a % b)

Abs(n) == IF n < 0 THEN -n ELSE n

Rat(n, d) ==
    LET g == GCD(Abs(n), Abs(d))
        s == IF d < 0 THEN -1 ELSE 1
    IN  <<(s * n) \div g, (s * d) \div g>>

R(n) == <<n, 1>>
RAdd(x, y) == Rat(x[1] * y[2] + y[1] * x[2], x[2] * y[2])
RMul(x, y) == Rat(x[1] * y[1], x[2] * y[2])
\* x / y, y # 0
RDiv(x, y) == Rat(x[1] * y[2], x[2] * y[1])

\* ----------------------------------------------------------------- dicts

\* d[k] = v on a Python dict: insert or overwrite
Put(d, k, v) == [x \in DOMAIN d \cup {k} |-> IF x = k THEN v ELSE d[x]]

RECURSIVE SumOver(_, _)
\* sum(d[k] for k in keys) over rational values
SumOver(d, keys) ==
    IF keys = {} THEN R(0)
    ELSE LET k == CHOOSE x \in keys : TRUE
         IN  RAdd(d[k], SumOver(d, keys \ {k}))

\* sum(d.values())
SumValues(d) == SumOver(d, DOMAIN d)

\* ----------------------------------------------------------------- state

VARIABLES
    review_start_time,  \* _metrics["review_start_time"]
    timing,             \* _metrics["timing"]: category -> list of elapsed times
    coverage,           \* _metrics["coverage"]
    issues,             \* _metrics["issues"]
    file_metrics,       \* _metrics["file_metrics"]: filename -> per-file dict
    file_order,         \* insertion order of the keys of file_metrics
    active,             \* stack of timed wrappers whose function is running
    last_op,            \* the call that made the last step, with its arguments
    result,             \* what that call returned (None for a procedure)
    calls,              \* how many calls of each operation were made so
                        \* far, how many review_file calls have read their
                        \* file and the issues review_file has returned
    call_limit,         \* how many calls the run makes at most
    self_issues,        \* CodeReviewer.issues
    stats,              \* CodeReviewer.stats
    issue_types_order,  \* insertion order of the keys of stats.issue_types
    threads             \* where each concurrent caller of the recorder is in
                        \* its call, with the arguments and what it has read

vars == <<review_start_time, timing, coverage, issues, file_metrics,
          file_order, active, last_op, result, calls, call_limit,
          self_issues, stats, issue_types_order, threads>>

stored == <<review_start_time, timing, coverage, issues, file_metrics,
            file_order>>

\* the state of a CodeReviewer
reviewer == <<self_issues, stats, issue_types_order>>

ZeroIssues == [t \in BuiltInTypes |-> 0]

\* the callers that share a recorder
Threads == {1, 2}

Idle == [pc |-> "idle"]

\* Metrics.__init__ and CodeReviewer.__init__
Constructed ==
    /\ review_start_time = 0
    /\ timing = <<>>
    /\ coverage = [files_reviewed |-> 0, lines_reviewed |-> 0,
                   total_files |-> 0, total_lines |-> 0]
    /\ issues = [t \in BuiltInTypes |-> R(0)]
    /\ file_metrics = <<>>
    /\ file_order = <<>>
    /\ active = <<>>
    /\ last_op = [op |-> "init"]
    /\ result = None
    /\ calls = [record_file_review |-> 0, lines_reviewed |-> 0,
                record_issue |-> 0, get_metrics |-> 0, timed |-> 0,
                review_file |-> 0, generate_review_report |-> 0,
                files_read |-> 0, accepted |-> <<>>, total |-> 0]
    /\ self_issues = <<>>
    /\ stats = [files_reviewed |-> 0, issues_found |-> 0,
                issue_types |-> <<>>]
    /\ issue_types_order = <<>>
    /\ threads = [th \in Threads |-> Idle]

Init == Constructed /\ call_limit = MaxCalls

\* ----------------------------------------------------- record_file_review

\* a per-file percentage that is 0 for a file of no lines
coverage_percent_zero(lines_reviewed, total_lines) ==
    IF total_lines > 0
    THEN RMul(RDiv(R(lines_reviewed), R(total_lines)), R(100))
    ELSE R(0)

\* coverage_percent of a file: lines_reviewed / total_lines * 100, or 100
coverage_percent(lines_reviewed, total_lines) ==
    IF total_lines > 0
    THEN RMul(RDiv(R(lines_reviewed), R(total_lines)), R(100))
    ELSE R(100)

\* the per-file dict record_file_review stores
new_file_metric(lines_reviewed, total_lines) ==
    [lines_reviewed |-> lines_reviewed,
     total_lines |-> total_lines,
     coverage_percent |-> coverage_percent(lines_reviewed, total_lines),
     review_time |-> None,
     issues |-> ZeroIssues]

\* a recorder that counts a filename only the first time it is recorded
reviewed_coverage_dedup(filename, lines_reviewed) ==
    IF filename \in DOMAIN file_metrics
    THEN coverage
    ELSE [coverage EXCEPT !.files_reviewed = @ + 1,
                          !.lines_reviewed = @ + lines_reviewed]

\* a recorder that assigns lines_reviewed where the code adds to it
reviewed_coverage_assign(filename, lines_reviewed) ==
    [coverage EXCEPT !.files_reviewed = @ + 1,
                     !.lines_reviewed = lines_reviewed]

\* the coverage counters after a file review
reviewed_coverage(filename, lines_reviewed) ==
    [coverage EXCEPT !.files_reviewed = @ + 1,
                     !.lines_reviewed = @ + lines_reviewed]

record_file_review(filename, lines_reviewed, total_lines) ==
    /\ calls.total < call_limit
    /\ coverage' = reviewed_coverage(filename, lines_reviewed)
    /\ file_metrics' = Put(file_metrics, filename,
                           new_file_metric(lines_reviewed, total_lines))
    /\ file_order' = IF filename \in DOMAIN file_metrics
                     THEN file_order
                     ELSE Append(file_order, filename)
    /\ last_op' = [op |-> "record_file_review", filename |-> filename,
                   lines_reviewed |-> lines_reviewed,
                   total_lines |-> total_lines]
    /\ result' = None
    /\ calls' = [calls EXCEPT !.record_file_review = @ + 1,
                              !.lines_reviewed = @ + lines_reviewed,
                              !.total = @ + 1]
    /\ UNCHANGED <<review_start_time, timing, issues, active>>
    /\ UNCHANGED <<call_limit, threads, reviewer>>

\* ------------------------------------------------ set_total_codebase_size

sized_coverage(files, lines) ==
    [coverage EXCEPT !.total_files = files, !.total_lines = lines]

set_total_codebase_size(files, lines) ==
    /\ calls.total < call_limit
    /\ coverage' = sized_coverage(files, lines)
    /\ last_op' = [op |-> "set_total_codebase_size", files |-> files,
                   lines |-> lines]
    /\ result' = None
    /\ calls' = [calls EXCEPT !.total = @ + 1]
    /\ UNCHANGED <<review_start_time, timing, issues, file_metrics,
                   file_order, active>>
    /\ UNCHANGED <<call_limit, threads, reviewer>>

\* ----------------------------------------------------------- record_issue

\* the counter an issue_type is counted under: itself when it is a key of
\* _metrics["issues"], "other" when it is not
remapped_type(issue_type) ==
    IF issue_type \in DOMAIN issues THEN issue_type ELSE "other"

\* a recorder that leaves the global counters as they are
issues_not_counted(t) == issues

\* the global counters after an issue of (remapped) type t
counted_issues(t) == [issues EXCEPT ![t] = RAdd(@, R(1))]

\* the entry appended to a file's issue_details
issue_detail(t, line_number, description) ==
    [type |-> t, line |-> line_number, description |-> description]

\* the file's dict after its counter for t is incremented and, when a line
\* number or a description is given, the detail entry is appended
file_metric_with_issue(fm, t, line_number, description) ==
    LET counted == [fm EXCEPT !.issues[t] = @ + 1]
        details == IF "issue_details" \in DOMAIN counted
                   THEN counted.issue_details
                   ELSE <<>>
    IN  IF TruthyInt(line_number) \/ TruthyStr(description)
        THEN Put(counted, "issue_details",
                 Append(details, issue_detail(t, line_number, description)))
        ELSE counted

\* whether the per-file increment raises KeyError: the file is registered
\* and its issues dict has no key t
issue_raises(t, filename) ==
    /\ filename \in DOMAIN file_metrics
    /\ t \notin DOMAIN file_metrics[filename].issues

record_issue(issue_type, filename, line_number, description) ==
    LET t == remapped_type(issue_type)
    IN  /\ calls.total < call_limit
        /\ issues' = counted_issues(t)
        /\ file_metrics' =
              IF filename \in DOMAIN file_metrics /\ ~issue_raises(t, filename)
              THEN [file_metrics EXCEPT ![filename] =
                       file_metric_with_issue(@, t, line_number, description)]
              ELSE file_metrics
        /\ last_op' = [op |-> "record_issue", issue_type |-> issue_type,
                       filename |-> filename, line_number |-> line_number,
                       description |-> description,
                       raised |-> IF issue_raises(t, filename)
                                  THEN Some("KeyError") ELSE None]
        /\ result' = None
        /\ calls' = [calls EXCEPT !.record_issue = @ + 1, !.total = @ + 1]
        /\ UNCHANGED <<review_start_time, timing, coverage, file_order, active>>
        /\ UNCHANGED <<call_limit, threads, reviewer>>

\* ------------------------------------------------------------ get_metrics

\* a percentage that is 100 when its total is 0
percent_of_full(part, total) ==
    IF total > 0 THEN RMul(RDiv(R(part), R(total)), R(100)) ELSE R(100)

\* files_reviewed / total_files * 100 and lines_reviewed / total_lines * 100,
\* each 0 when its total is 0
percent_of(part, total) ==
    IF total > 0 THEN RMul(RDiv(R(part), R(total)), R(100)) ELSE R(0)

\* metrics["coverage"] with the two percentages stored in it
coverage_with_percentages(c) ==
    Put(Put(c, "file_coverage_percent",
            percent_of(c.files_reviewed, c.total_files)),
        "line_coverage_percent",
        percent_of(c.lines_reviewed, c.total_lines))

\* metrics["issues"]["total"] = sum(metrics["issues"].values())
issues_with_total(i) == Put(i, "total", SumValues(i))

\* metrics["issues"]["issues_per_1000_lines"]
issues_with_density(i, lines_reviewed) ==
    Put(i, "issues_per_1000_lines",
        IF lines_reviewed > 0
        THEN RMul(RDiv(i["total"], R(lines_reviewed)), R(1000))
        ELSE R(0))

\* metrics = self._metrics.copy() is a shallow copy: metrics["coverage"] and
\* metrics["issues"] are the recorder's own dicts, so the keys get_metrics
\* adds to them are added to the stored state
get_metrics(now) ==
    /\ calls.total < call_limit
    /\ coverage' = coverage_with_percentages(coverage)
    /\ issues' = issues_with_density(issues_with_total(issues),
                                     coverage.lines_reviewed)
    /\ result' = Some([review_start_time |-> review_start_time,
                       timing |-> timing,
                       coverage |-> coverage',
                       issues |-> issues',
                       file_metrics |-> file_metrics,
                       review_end_time |-> now,
                       total_duration_seconds |-> now - review_start_time])
    /\ last_op' = [op |-> "get_metrics"]
    /\ calls' = [calls EXCEPT !.get_metrics = @ + 1, !.total = @ + 1]
    /\ UNCHANGED <<review_start_time, timing, file_metrics, file_order, active>>
    /\ UNCHANGED <<call_limit, threads, reviewer>>

\* ------------------------------------------------------------------ timed

\* wrapper entered: start_time is taken and func starts to run; what func
\* does on the recorder are the steps taken until the wrapper returns
timed_call(category, filename) ==
    /\ calls.total < call_limit
    /\ active' = Append(active, [category |-> category, filename |-> filename])
    /\ last_op' = [op |-> "timed_call", category |-> category,
                   filename |-> filename]
    /\ result' = None
    /\ calls' = [calls EXCEPT !.timed = @ + 1, !.total = @ + 1]
    /\ UNCHANGED <<stored, call_limit, threads, reviewer>>

\* timing that keeps only the latest sample of a category
timing_with_latest(category, elapsed_time) ==
    Put(timing, category, <<elapsed_time>>)

\* timing with elapsed_time appended to the category's list
timing_with_sample(category, elapsed_time) ==
    Put(timing, category,
        Append(IF category \in DOMAIN timing THEN timing[category] ELSE <<>>,
               elapsed_time))

\* a wrapper that keeps the first review_time of a file
file_metrics_with_first_time(filename, elapsed_time) ==
    IF /\ TruthyStr(filename)
       /\ filename[1] \in DOMAIN file_metrics
       /\ file_metrics[filename[1]].review_time = None
    THEN [file_metrics EXCEPT ![filename[1]].review_time = Some(elapsed_time)]
    ELSE file_metrics

\* file_metrics after a timed call tied to filename measured elapsed_time
file_metrics_with_time(filename, elapsed_time) ==
    IF TruthyStr(filename) /\ filename[1] \in DOMAIN file_metrics
    THEN [file_metrics EXCEPT ![filename[1]].review_time = Some(elapsed_time)]
    ELSE file_metrics

\* func returned: the innermost running wrapper records elapsed_time
timed_return(elapsed_time) ==
    /\ active # <<>>
    /\ LET w == active[Len(active)]
       IN  /\ timing' = timing_with_sample(w.category, elapsed_time)
           /\ file_metrics' = file_metrics_with_time(w.filename, elapsed_time)
           /\ last_op' = [op |-> "timed_return", category |-> w.category,
                          filename |-> w.filename,
                          elapsed_time |-> elapsed_time]
    /\ active' = SubSeq(active, 1, Len(active) - 1)
    /\ result' = None
    /\ UNCHANGED <<review_start_time, coverage, issues, file_order, calls>>
    /\ UNCHANGED <<call_limit, threads, reviewer>>

\* func raised: the exception leaves the wrapper before anything is recorded
timed_raise ==
    /\ active # <<>>
    /\ active' = SubSeq(active, 1, Len(active) - 1)
    /\ last_op' = [op |-> "timed_raise",
                   category |-> active[Len(active)].category,
                   filename |-> active[Len(active)].filename]
    /\ result' = None
    /\ UNCHANGED <<stored, calls, call_limit, threads, reviewer>>

\* ------------------------------------------------------------------- spec

Next ==
    \/ \E f \in Files, r \in ReviewedLines, t \in TotalLines :
          record_file_review(f, r, t)
    \/ \E n \in CodebaseFiles, l \in CodebaseLines :
          set_total_codebase_size(n, l)
    \/ \E it \in IssueTypes, f \in Files, ln \in LineNumbers,
          d \in Descriptions :
          record_issue(it, f, ln, d)
    \/ \E now \in Clock : get_metrics(now)
    \/ \E c \in TimingCategories, f \in TimedFilenames : timed_call(c, f)
    \/ \E e \in ElapsedTimes : timed_return(e)
    \/ timed_raise

Spec == Init /\ [][Next]_vars

\* runs of file reviews, issues and snapshots only, one call longer: long
\* enough for a second snapshot of a recorder that holds lines and issues
InitSnapshots == Constructed /\ call_limit = MaxSnapshotCalls

NextSnapshots ==
    \/ \E f \in Files, r \in ReviewedLines, t \in TotalLines :
          record_file_review(f, r, t)
    \/ \E it \in IssueTypes, f \in Files :
          record_issue(it, f, None, None)
    \/ \E now \in Clock : get_metrics(now)

SpecSnapshots == InitSnapshots /\ [][NextSnapshots]_vars

\* ------------------------------------------------------ concurrent callers

\* Two callers share a recorder, the default one of get_metrics_instance or
\* any other. The methods take no lock, so a caller can be preempted
\* between any two of its reads and writes of the shared dicts: each step
\* below is one read or one write of one caller.

\* a caller enters record_issue
issue_called(th, issue_type, filename, line_number, description) ==
    /\ calls.total < call_limit
    /\ threads[th].pc = "idle"
    /\ threads' = [threads EXCEPT ![th] =
                      [pc |-> "read_issues", issue_type |-> issue_type,
                       filename |-> filename, line_number |-> line_number,
                       description |-> description]]
    /\ last_op' = [op |-> "enter_record_issue", thread |-> th]
    /\ calls' = [calls EXCEPT !.record_issue = @ + 1, !.total = @ + 1]
    /\ UNCHANGED <<stored, active, result, call_limit, reviewer>>

\* self._metrics["issues"][issue_type] += 1, the read
issue_counter_read(th) ==
    /\ threads[th].pc = "read_issues"
    /\ threads' = [threads EXCEPT ![th] =
                      [pc |-> "store_issues",
                       issue_type |-> remapped_type(threads[th].issue_type),
                       filename |-> threads[th].filename,
                       line_number |-> threads[th].line_number,
                       description |-> threads[th].description,
                       read |-> issues[remapped_type(threads[th].issue_type)]]]
    /\ last_op' = [op |-> "read_issues", thread |-> th]
    /\ UNCHANGED <<stored, active, result, calls, call_limit, reviewer>>

\* self._metrics["issues"][issue_type] += 1, the write
issue_counter_stored(th) ==
    /\ threads[th].pc = "store_issues"
    /\ issues' = [issues EXCEPT ![threads[th].issue_type] =
                     RAdd(threads[th].read, R(1))]
    /\ threads' = [threads EXCEPT ![th].pc = "count_file"]
    /\ last_op' = [op |-> "store_issues", thread |-> th]
    /\ UNCHANGED <<review_start_time, timing, coverage, file_metrics,
                   file_order, active, result, calls, call_limit, reviewer>>

\* the per-file counter of a registered file
issue_file_counted(th) ==
    LET filename == threads[th].filename
        tracked  == \/ TruthyInt(threads[th].line_number)
                    \/ TruthyStr(threads[th].description)
    IN  /\ threads[th].pc = "count_file"
        /\ IF filename \in DOMAIN file_metrics
           THEN /\ file_metrics' =
                      [file_metrics EXCEPT
                          ![filename].issues[threads[th].issue_type] = @ + 1]
                /\ threads' = IF tracked
                              THEN [threads EXCEPT ![th].pc = "append_detail"]
                              ELSE [threads EXCEPT ![th] = Idle]
           ELSE /\ file_metrics' = file_metrics
                /\ threads' = [threads EXCEPT ![th] = Idle]
        /\ last_op' = [op |-> "count_file", thread |-> th]
        /\ UNCHANGED <<review_start_time, timing, coverage, issues,
                       file_order, active, result, calls, call_limit,
                       reviewer>>

\* the append to issue_details of the file's dict, created when missing
issue_detail_appended(th) ==
    LET filename == threads[th].filename
        fm       == file_metrics[filename]
        details  == IF "issue_details" \in DOMAIN fm
                    THEN fm.issue_details
                    ELSE <<>>
    IN  /\ threads[th].pc = "append_detail"
        /\ file_metrics' =
              [file_metrics EXCEPT ![filename] =
                  Put(fm, "issue_details",
                      Append(details,
                             issue_detail(threads[th].issue_type,
                                          threads[th].line_number,
                                          threads[th].description)))]
        /\ threads' = [threads EXCEPT ![th] = Idle]
        /\ last_op' = [op |-> "append_detail", thread |-> th]
        /\ UNCHANGED <<review_start_time, timing, coverage, issues,
                       file_order, active, result, calls, call_limit,
                       reviewer>>

\* a caller enters record_file_review
review_called(th, filename, lines_reviewed, total_lines) ==
    /\ calls.total < call_limit
    /\ threads[th].pc = "idle"
    /\ threads' = [threads EXCEPT ![th] =
                      [pc |-> "read_coverage", filename |-> filename,
                       lines_reviewed |-> lines_reviewed,
                       total_lines |-> total_lines]]
    /\ last_op' = [op |-> "enter_record_file_review", thread |-> th]
    /\ calls' = [calls EXCEPT !.record_file_review = @ + 1,
                              !.lines_reviewed = @ + lines_reviewed,
                              !.total = @ + 1]
    /\ UNCHANGED <<stored, active, result, call_limit, reviewer>>

\* self._metrics["coverage"]["files_reviewed"] += 1, the read
review_counter_read(th) ==
    /\ threads[th].pc = "read_coverage"
    /\ threads' = [threads EXCEPT ![th] =
                      [pc |-> "store_coverage",
                       filename |-> threads[th].filename,
                       lines_reviewed |-> threads[th].lines_reviewed,
                       total_lines |-> threads[th].total_lines,
                       read |-> coverage.files_reviewed]]
    /\ last_op' = [op |-> "read_coverage", thread |-> th]
    /\ UNCHANGED <<stored, active, result, calls, call_limit, reviewer>>

\* the write of files_reviewed, and lines_reviewed += lines_reviewed
review_counter_stored(th) ==
    /\ threads[th].pc = "store_coverage"
    /\ coverage' = [coverage EXCEPT
                       !.files_reviewed = threads[th].read + 1,
                       !.lines_reviewed = @ + threads[th].lines_reviewed]
    /\ threads' = [threads EXCEPT ![th].pc = "store_file"]
    /\ last_op' = [op |-> "store_coverage", thread |-> th]
    /\ UNCHANGED <<review_start_time, timing, issues, file_metrics,
                   file_order, active, result, calls, call_limit, reviewer>>

\* self._metrics["file_metrics"][filename] = {...}
review_file_stored(th) ==
    LET filename == threads[th].filename
    IN  /\ threads[th].pc = "store_file"
        /\ file_metrics' = Put(file_metrics, filename,
                               new_file_metric(threads[th].lines_reviewed,
                                               threads[th].total_lines))
        /\ file_order' = IF filename \in DOMAIN file_metrics
                         THEN file_order
                         ELSE Append(file_order, filename)
        /\ threads' = [threads EXCEPT ![th] = Idle]
        /\ last_op' = [op |-> "store_file", thread |-> th]
        /\ UNCHANGED <<review_start_time, timing, coverage, issues, active,
                       result, calls, call_limit, reviewer>>

InitConcurrent == Constructed /\ call_limit = MaxConcurrentCalls

NextConcurrent ==
    \E th \in Threads :
       \/ \E ln \in LineNumbers : issue_called(th, "security", "a.py", ln, None)
       \/ issue_counter_read(th)
       \/ issue_counter_stored(th)
       \/ issue_file_counted(th)
       \/ issue_detail_appended(th)
       \/ review_called(th, "a.py", 1, 2)
       \/ review_counter_read(th)
       \/ review_counter_stored(th)
       \/ review_file_stored(th)

SpecConcurrent == InitConcurrent /\ [][NextConcurrent]_vars

\* ---------------------------------------------------------- print_summary

RECURSIVE sum_counts(_, _)

\* sum(file_data["issues"].values()) over the keys given
sum_counts(d, keys) ==
    IF keys = {}
    THEN 0
    ELSE LET k == CHOOSE x \in keys : TRUE
         IN  d[k] + sum_counts(d, keys \ {k})

total_issues(file_data) == sum_counts(file_data.issues, DOMAIN file_data.issues)

\* file_issues: (filename, total_issues) of the files with issues, in the
\* order of the keys of metrics["file_metrics"]
files_with_issues ==
    LET with_issues == SelectSeq(file_order,
                                 LAMBDA f : total_issues(file_metrics[f]) > 0)
    IN  [k \in 1..Len(with_issues) |->
            <<with_issues[k], total_issues(file_metrics[with_issues[k]])>>]

\* a sort that puts an entry before the entries of the same count
inserted_before_ties(entries, x) ==
    LET k == Cardinality({j \in 1..Len(entries) : entries[j][2] > x[2]})
    IN  SubSeq(entries, 1, k) \o <<x>> \o SubSeq(entries, k + 1, Len(entries))

\* sorted(..., key=count, reverse=True) is stable: an entry comes after
\* the entries before it that have at least its count
inserted(entries, x) ==
    LET k == Cardinality({j \in 1..Len(entries) : entries[j][2] >= x[2]})
    IN  SubSeq(entries, 1, k) \o <<x>> \o SubSeq(entries, k + 1, Len(entries))

RECURSIVE sorted_into(_, _)

sorted_into(entries, rest) ==
    IF rest = <<>>
    THEN entries
    ELSE sorted_into(inserted(entries, Head(rest)), Tail(rest))

TopFilesShown == 5

\* sorted(file_issues, key=lambda x: x[1], reverse=True)[:5]
top_files ==
    LET entries == sorted_into(<<>>, files_with_issues)
    IN  SubSeq(entries, 1,
               IF Len(entries) < TopFilesShown
               THEN Len(entries)
               ELSE TopFilesShown)

\* print_summary takes a snapshot with get_metrics and prints it; result is
\* what it prints under "Top files by issue count"
print_summary(now) ==
    /\ calls.total < call_limit
    /\ coverage' = coverage_with_percentages(coverage)
    /\ issues' = issues_with_density(issues_with_total(issues),
                                     coverage.lines_reviewed)
    /\ result' = Some([files_reviewed |-> coverage.files_reviewed,
                       total_issues |-> issues'["total"],
                       top_files |-> top_files])
    /\ last_op' = [op |-> "print_summary"]
    /\ calls' = [calls EXCEPT !.get_metrics = @ + 1, !.total = @ + 1]
    /\ UNCHANGED <<review_start_time, timing, file_metrics, file_order, active>>
    /\ UNCHANGED <<call_limit, threads, reviewer>>

\* the names of the files recorded before a summary
SummaryFiles ==
    <<"a.py", "b.py", "c.py", "d.py", "e.py", "f.py", "g.py", "h.py">>

\* the issues recorded for a file: none, one of security, or one of
\* security and one of style
SummaryCounts == 0..2

\* the recorder after record_file_review(f, 1, 1) for n files, in the
\* order of their names or against it, each followed by the record_issue
\* calls of the file; one more call is made
InitSummary ==
    \E n \in 0..MaxSummaryFiles, backwards \in BOOLEAN :
       \E c \in [1..n -> SummaryCounts] :
          LET name(k) == SummaryFiles[IF backwards THEN n + 1 - k ELSE k]
              ones == Cardinality({k \in 1..n : c[k] >= 1})
              twos == Cardinality({k \in 1..n : c[k] = 2})
          IN  /\ review_start_time = 0
              /\ timing = <<>>
              /\ coverage = [files_reviewed |-> n, lines_reviewed |-> n,
                             total_files |-> 0, total_lines |-> 0]
              /\ issues = [t \in BuiltInTypes |->
                              IF t = "security" THEN R(ones)
                              ELSE IF t = "style" THEN R(twos)
                              ELSE R(0)]
              /\ file_order = [k \in 1..n |-> name(k)]
              /\ file_metrics =
                    [f \in {name(k) : k \in 1..n} |->
                        LET k == CHOOSE j \in 1..n : name(j) = f
                        IN  [new_file_metric(1, 1) EXCEPT
                                !.issues = [t \in BuiltInTypes |->
                                   IF t = "security" /\ c[k] >= 1 THEN 1
                                   ELSE IF t = "style" /\ c[k] = 2 THEN 1
                                   ELSE 0]]]
              /\ active = <<>>
              /\ last_op = [op |-> "init"]
              /\ result = None
              /\ calls = [record_file_review |-> n, lines_reviewed |-> n,
                          record_issue |-> ones + twos, get_metrics |-> 0,
                          timed |-> 0, review_file |-> 0,
                          generate_review_report |-> 0, files_read |-> 0,
                          accepted |-> <<>>, total |-> n + ones + twos]
              /\ call_limit = n + ones + twos + 1
              /\ self_issues = <<>>
              /\ stats = [files_reviewed |-> 0, issues_found |-> 0,
                          issue_types |-> <<>>]
              /\ issue_types_order = <<>>
              /\ threads = [th \in Threads |-> Idle]

NextSummary == \E now \in Clock : print_summary(now)

SpecSummary == InitSummary /\ [][NextSummary]_vars

\* --------------------------------------------------------- reviewer inputs

\* a line of a file: its length, the patterns of the checks that match on
\* it, and whether its last character is white space
Line(len, matches, trailing) ==
    [len |-> len, matches |-> matches, trailing |-> trailing]

\* a line of a template file
TemplateLine(kind, text) == [kind |-> kind, text |-> text]

\* the <name>.md files of template_path, as lines: "section" is a line that
\* starts with "## ", "item" one that starts with "- [ ] ", "text" any other
TemplateFiles ==
    "general" :> <<TemplateLine("text", "# General Review"),
                   TemplateLine("section", "Security"),
                   TemplateLine("item", "No hardcoded credentials"),
                   TemplateLine("section", "Style"),
                   TemplateLine("item", "Readable names")>>
    @@ "empty" :> <<TemplateLine("text", "# Nothing to check"),
                    TemplateLine("item", "An item under no section")>>

\* "missing" has no file in template_path
TemplateNames == {"general", "empty", "missing"}

\* a node ast.walk meets below a function, as _calculate_complexity reads
\* it: its class and, for a BoolOp, the class of its op and len(values)
Subnode(type, op, values) == [type |-> type, op |-> op, values |-> values]

Statement(type) == Subnode(type, "", 0)

\* a node of a parsed module, as the checks read it; subnodes are the nodes
\* ast.walk meets below it, those of nested functions included
Node(type, name, lineno, has_docstring, subnodes) ==
    [type |-> type, name |-> name, lineno |-> lineno,
     has_docstring |-> has_docstring, subnodes |-> subnodes]

\* a module node: it has neither a name nor a lineno
Module(has_docstring) == Node("Module", None, None, has_docstring, <<>>)

\* what the names of the parsed nodes look like to the checks
NameShapes ==
    "BadName" :> [underscore |-> FALSE, dunder |-> FALSE,
                  camel_case |-> TRUE, snake_case |-> FALSE]

\* a file: its extension as os.path.splitext gives it, its lines (None when
\* open or read raises), and for Python text what ast.parse makes of it: a
\* SyntaxError at a line, or the nodes of the tree in ast.walk order
SourceFile(ext, content, syntax_error, tree) ==
    [ext |-> ext, content |-> content, syntax_error |-> syntax_error,
     tree |-> tree]

PlainLine == Line(12, {}, FALSE)
PasswordLine == Line(14, {"password"}, FALSE)

SourceFiles ==
    "clean.py" :> SourceFile(".py", Some(<<PlainLine>>), None,
                             <<Module(TRUE)>>)
    @@ "doc.py" :> SourceFile(".py", Some(<<PlainLine, PasswordLine>>), None,
                              <<Module(TRUE)>>)
    @@ "nodoc.py" :> SourceFile(".py", Some(<<PasswordLine>>), None,
                                <<Module(FALSE)>>)
    @@ "broken.py" :> SourceFile(".py",
                                 Some(<<PlainLine, PasswordLine, PlainLine>>),
                                 Some(3), <<>>)
    @@ "tangled.py" :> SourceFile(".py", Some([i \in 1..12 |-> PlainLine]),
                                  None,
                                  <<Module(TRUE),
                                    Node("FunctionDef", Some("BadName"),
                                         Some(2), FALSE,
                                         [i \in 1..8 |-> Statement("If")]
                                            \o <<Subnode("BoolOp", "And",
                                                         3)>>)>>)
    @@ "app.js" :> SourceFile(".js",
                              Some(<<PasswordLine,
                                     Line(15, {"console.log"}, FALSE)>>),
                              None, <<>>)
    @@ "notes.txt" :> SourceFile(".txt",
                                 Some(<<Line(16, {"password"}, TRUE),
                                        Line(101, {}, FALSE)>>),
                                 None, <<>>)
    @@ "view.TS" :> SourceFile(".TS",
                               Some(<<Line(15, {"console.log"}, FALSE),
                                      PasswordLine>>),
                               None, <<>>)
    @@ "gone.py" :> SourceFile(".py", None, None, <<>>)

FilePaths == DOMAIN SourceFiles

\* ----------------------------------------------------------- load_template

\* sections of a template: a "## " line opens a section, a "- [ ] " line
\* adds an item to the open section and is dropped when none is open
RECURSIVE parsed_lines(_, _, _)

parsed_lines(lines, sections, current_section) ==
    IF lines = <<>>
    THEN sections
    ELSE LET line == Head(lines)
         IN  IF line.kind = "section"
             THEN parsed_lines(Tail(lines), Put(sections, line.text, <<>>),
                               Some(line.text))
             ELSE IF line.kind = "item" /\ TruthyStr(current_section)
             THEN parsed_lines(Tail(lines),
                               [sections EXCEPT ![current_section[1]] =
                                   Append(@, line.text)],
                               current_section)
             ELSE parsed_lines(Tail(lines), sections, current_section)

parse_template(content) == parsed_lines(content, <<>>, None)

\* the sections of <template_name>.md, {} when there is no such file
load_template(template_name) ==
    IF template_name \in DOMAIN TemplateFiles
    THEN parse_template(TemplateFiles[template_name])
    ELSE <<>>

\* ------------------------------------------------------------- the checks

Issue(file, line, category, severity, message) ==
    [file |-> file, line |-> line, category |-> category,
     severity |-> severity, message |-> message]

\* what a check leaves behind: self.issues, and the exception it raised
Checked(found, raised) == [issues |-> found, raised |-> raised]

\* the members of a set of numbers in ascending order
RECURSIVE ascending(_)

ascending(S) ==
    IF S = {}
    THEN <<>>
    ELSE LET m == CHOOSE x \in S : \A y \in S : x <= y
         IN  <<m>> \o ascending(S \ {m})

\* the 1-based numbers of the lines a pattern matches on, in text order:
\* content.count('\n', 0, match.start()) + 1 for each match
match_lines(content, pattern) ==
    ascending({i \in 1..Len(content) : pattern \in content[i].matches})

\* the order of the patterns of _check_hardcoded_credentials
CredentialPatterns == <<"password", "api_key", "secret", "token">>

RECURSIVE credential_issues(_, _, _)

credential_issues(file_path, content, patterns) ==
    IF patterns = <<>>
    THEN <<>>
    ELSE LET lines == match_lines(content, Head(patterns))
         IN  [k \in 1..Len(lines) |->
                 Issue(file_path, lines[k], "Security", "High",
                       "Potential hardcoded credential detected")]
             \o credential_issues(file_path, content, Tail(patterns))

check_hardcoded_credentials(file_path, content) ==
    credential_issues(file_path, content, CredentialPatterns)

\* the name a docstring message gives a node
node_name(node) == IF node.name = None THEN "module" ELSE node.name[1]

node_type(node) == IF node.type = "FunctionDef" THEN "function" ELSE "class"

\* whether _check_docstrings reports a node
lacks_docstring(node) ==
    /\ node.type \in {"FunctionDef", "ClassDef", "Module"}
    /\ ~node.has_docstring
    /\ ~(node.type = "FunctionDef" /\ NameShapes[node.name[1]].underscore)

\* _check_docstrings over the nodes left to walk: building the issue of a
\* node reads node.lineno, which a Module does not have (AttributeError)
RECURSIVE check_docstrings(_, _, _)

check_docstrings(file_path, nodes, found) ==
    IF nodes = <<>>
    THEN Checked(found, None)
    ELSE LET node == Head(nodes)
         IN  IF ~lacks_docstring(node)
             THEN check_docstrings(file_path, Tail(nodes), found)
             ELSE IF node.lineno = None
             THEN Checked(found, Some("AttributeError"))
             ELSE check_docstrings(
                     file_path, Tail(nodes),
                     Append(found,
                            Issue(file_path, node.lineno[1], "Documentation",
                                  "Medium",
                                  "Missing docstring for " \o node_type(node)
                                     \o " '" \o node_name(node) \o "'")))

\* whether _check_naming_conventions reports a node
misnamed(node) ==
    \/ node.type = "ClassDef" /\ ~NameShapes[node.name[1]].camel_case
    \/ /\ node.type = "FunctionDef"
       /\ ~NameShapes[node.name[1]].dunder
       /\ ~NameShapes[node.name[1]].snake_case

naming_message(node) ==
    IF node.type = "ClassDef"
    THEN "Class '" \o node.name[1]
            \o "' doesn't follow CamelCase naming convention"
    ELSE "Function '" \o node.name[1]
            \o "' doesn't follow snake_case naming convention"

check_naming_conventions(file_path, tree) ==
    LET nodes == SelectSeq(tree, misnamed)
    IN  [k \in 1..Len(nodes) |->
            Issue(file_path, nodes[k].lineno[1], "Style", "Low",
                  naming_message(nodes[k]))]

RECURSIVE walked_complexity(_, _)

\* the loop over ast.walk(node): If, While and For add 1, a BoolOp of And
\* adds len(values) - 1
walked_complexity(subnodes, complexity) ==
    IF subnodes = <<>>
    THEN complexity
    ELSE LET subnode == Head(subnodes)
         IN  IF subnode.type \in {"If", "While", "For"}
             THEN walked_complexity(Tail(subnodes), complexity + 1)
             ELSE IF subnode.type = "BoolOp" /\ subnode.op = "And"
             THEN walked_complexity(Tail(subnodes),
                                    complexity + subnode.values - 1)
             ELSE walked_complexity(Tail(subnodes), complexity)

\* a complexity that adds 1 for every boolean chain, whatever its operator
\* and the number of its operands
calculate_complexity_per_chain(node) ==
    1 + Len(SelectSeq(node.subnodes,
                      LAMBDA n : n.type \in {"If", "While", "For", "BoolOp"}))

calculate_complexity(node) == walked_complexity(node.subnodes, 1)

MaxComplexity == 10

too_complex(node) ==
    node.type = "FunctionDef" /\ calculate_complexity(node) > MaxComplexity

check_function_complexity(file_path, tree) ==
    LET nodes == SelectSeq(tree, too_complex)
    IN  [k \in 1..Len(nodes) |->
            Issue(file_path, nodes[k].lineno[1], "Maintainability", "Medium",
                  "Function '" \o nodes[k].name[1]
                     \o "' has high cyclomatic complexity ("
                     \o ToString(calculate_complexity(nodes[k])) \o ")")]

check_console_logs(file_path, content) ==
    LET lines == match_lines(content, "console.log")
    IN  [k \in 1..Len(lines) |->
            Issue(file_path, lines[k], "Debug", "Low",
                  "console.log statement should be removed in production code")]

max_length == 100

check_line_length(file_path, content) ==
    LET lines == ascending({i \in 1..Len(content) :
                               content[i].len > max_length})
    IN  [k \in 1..Len(lines) |->
            Issue(file_path, lines[k], "Style", "Low",
                  "Line exceeds " \o ToString(max_length)
                     \o " characters (length: "
                     \o ToString(content[lines[k]].len) \o ")")]

check_trailing_whitespace(file_path, content) ==
    LET lines == ascending({i \in 1..Len(content) :
                               content[i].len > 0 /\ content[i].trailing})
    IN  [k \in 1..Len(lines) |->
            Issue(file_path, lines[k], "Style", "Low",
                  "Line has trailing whitespace")]

\* ------------------------------------------------------------ review_file

\* a review that goes on to the credential check after a SyntaxError
review_python_file_lenient(file_path, content, file) ==
    IF file.syntax_error # None
    THEN Checked(<<Issue(file_path, file.syntax_error[1], "Syntax", "High",
                         "Syntax error: invalid syntax (<unknown>, line "
                            \o ToString(file.syntax_error[1]) \o ")")>>
                    \o check_hardcoded_credentials(file_path, content),
                 None)
    ELSE Checked(check_hardcoded_credentials(file_path, content), None)

\* _review_python_file: a text that does not parse gives the Syntax issue
\* and no check runs; one that parses goes through the four checks, and an
\* exception of a check leaves the function with the issues found so far
review_python_file(file_path, content, file) ==
    IF file.syntax_error # None
    THEN Checked(<<Issue(file_path, file.syntax_error[1], "Syntax", "High",
                         "Syntax error: invalid syntax (<unknown>, line "
                            \o ToString(file.syntax_error[1]) \o ")")>>,
                 None)
    ELSE LET documented ==
                 check_docstrings(
                    file_path, file.tree,
                    check_hardcoded_credentials(file_path, content))
         IN  IF documented.raised # None
             THEN documented
             ELSE Checked(documented.issues
                             \o check_naming_conventions(file_path, file.tree)
                             \o check_function_complexity(file_path,
                                                          file.tree),
                          None)

review_javascript_file(file_path, content) ==
    Checked(check_console_logs(file_path, content)
               \o check_hardcoded_credentials(file_path, content),
            None)

\* a generic review that runs the credential check as well
review_generic_file_with_credentials(file_path, content) ==
    Checked(check_line_length(file_path, content)
               \o check_trailing_whitespace(file_path, content)
               \o check_hardcoded_credentials(file_path, content),
            None)

review_generic_file(file_path, content) ==
    Checked(check_line_length(file_path, content)
               \o check_trailing_whitespace(file_path, content),
            None)

\* str.lower of an extension
lower(ext) ==
    CASE ext = ".PY" -> ".py"
      [] ext = ".JS" -> ".js"
      [] ext = ".TS" -> ".ts"
      [] OTHER -> ext

\* a review that takes a file it cannot read for an empty one
reviewed_unreadable_as_empty(file_path) == Checked(<<>>, None)

\* the body of the try block up to the statistics: the issues in self.issues
\* when it is left, and the exception that left it
reviewed(file_path) ==
    LET file == SourceFiles[file_path]
        file_ext == lower(file.ext)
    IN  IF file.content = None
        THEN Checked(<<>>, Some("OSError"))
        ELSE IF file_ext = ".py"
        THEN review_python_file(file_path, file.content[1], file)
        ELSE IF file_ext \in {".js", ".ts"}
        THEN review_javascript_file(file_path, file.content[1])
        ELSE review_generic_file(file_path, file.content[1])

\* stats["issue_types"] after counting the categories of a list of issues
RECURSIVE counted_categories(_, _)

counted_categories(issue_types, found) ==
    IF found = <<>>
    THEN issue_types
    ELSE LET category == Head(found).category
         IN  counted_categories(
                Put(issue_types, category,
                    IF category \in DOMAIN issue_types
                    THEN issue_types[category] + 1
                    ELSE 1),
                Tail(found))

\* the keys of stats["issue_types"] in insertion order
RECURSIVE ordered_categories(_, _)

ordered_categories(order, found) ==
    IF found = <<>>
    THEN order
    ELSE LET category == Head(found).category
         IN  ordered_categories(
                IF \E k \in 1..Len(order) : order[k] = category
                THEN order
                ELSE Append(order, category),
                Tail(found))

\* a missing template that lets the review go on
template_not_needed(template) == FALSE

\* a reviewer that keeps the issues of the reviews before
kept_issues == self_issues

\* self.issues = [] at the start of review_file
reset_issues == <<>>

\* not template
template_failed(template) == DOMAIN template = {}

review_file(file_path, template_name) ==
    LET template == load_template(template_name)
        checked  == reviewed(file_path)
    IN  /\ calls.total < call_limit
        /\ IF template_failed(template)
           THEN /\ self_issues' = reset_issues
                /\ result' = Some(<<>>)
                /\ last_op' = [op |-> "review_file", file_path |-> file_path,
                               template_name |-> template_name,
                               template |-> FALSE, raised |-> None]
                /\ calls' = [calls EXCEPT !.review_file = @ + 1,
                                          !.total = @ + 1]
                /\ UNCHANGED <<stats, issue_types_order>>
           ELSE IF checked.raised # None
           THEN /\ self_issues' = reset_issues \o checked.issues
                /\ result' = Some(<<>>)
                /\ last_op' = [op |-> "review_file", file_path |-> file_path,
                               template_name |-> template_name,
                               template |-> TRUE, raised |-> checked.raised]
                /\ calls' = [calls EXCEPT
                                !.review_file = @ + 1,
                                !.files_read =
                                   IF SourceFiles[file_path].content = None
                                   THEN @
                                   ELSE @ + 1,
                                !.total = @ + 1]
                /\ UNCHANGED <<stats, issue_types_order>>
           ELSE /\ self_issues' = reset_issues \o checked.issues
                /\ stats' =
                      [files_reviewed |-> stats.files_reviewed + 1,
                       issues_found |->
                          stats.issues_found + Len(self_issues'),
                       issue_types |->
                          counted_categories(stats.issue_types, self_issues')]
                /\ issue_types_order' =
                      ordered_categories(issue_types_order, self_issues')
                /\ result' = Some(self_issues')
                /\ last_op' = [op |-> "review_file", file_path |-> file_path,
                               template_name |-> template_name,
                               template |-> TRUE, raised |-> None]
                /\ calls' = [calls EXCEPT !.review_file = @ + 1,
                                          !.files_read = @ + 1,
                                          !.accepted = @ \o self_issues',
                                          !.total = @ + 1]
        /\ UNCHANGED <<stored, active, call_limit, threads>>

\* -------------------------------------------------- generate_review_report

\* the files of a list of issues in first-seen order: the keys of
\* issues_by_file in insertion order
RECURSIVE grouped_files(_, _)

grouped_files(found, files) ==
    IF found = <<>>
    THEN files
    ELSE grouped_files(Tail(found),
                       IF \E k \in 1..Len(files) : files[k] = Head(found).file
                       THEN files
                       ELSE Append(files, Head(found).file))

severity_order == <<"High", "Medium", "Low">>

\* the text lines of one issue; the report is the lines of its pieces, as
\* joining the pieces with "\n" lays them out
issue_lines(issue) ==
    <<"- **Line " \o ToString(issue.line) \o "** (" \o issue.category
         \o "): " \o issue.message>>

\* the subsection of one severity of one file, nothing when it is empty
severity_lines(file_issues, severity) ==
    LET severity_issues == SelectSeq(file_issues,
                                     LAMBDA i : i.severity = severity)
    IN  IF severity_issues = <<>>
        THEN <<>>
        ELSE <<"#### " \o severity \o " Severity Issues", "">>
             \o [k \in 1..Len(severity_issues) |->
                    issue_lines(severity_issues[k])[1]]
             \o <<"">>

\* a report that puts the Low subsection before the Medium one
file_lines_low_first(file_path, file_issues) ==
    <<"### File: " \o file_path, "">>
    \o severity_lines(file_issues, "High")
    \o severity_lines(file_issues, "Low")
    \o severity_lines(file_issues, "Medium")

\* the block of one file (the backquotes around the path are left out)
file_lines(file_path, file_issues) ==
    <<"### File: " \o file_path, "">>
    \o severity_lines(file_issues, severity_order[1])
    \o severity_lines(file_issues, severity_order[2])
    \o severity_lines(file_issues, severity_order[3])

RECURSIVE detailed_lines(_, _)

detailed_lines(found, files) ==
    IF files = <<>>
    THEN <<>>
    ELSE file_lines(Head(files),
                    SelectSeq(found, LAMBDA i : i.file = Head(files)))
         \o detailed_lines(found, Tail(files))

\* the summary block, from the reviewer's statistics
summary_lines ==
    <<"## Summary", "",
      "- Files reviewed: " \o ToString(stats.files_reviewed),
      "- Total issues found: " \o ToString(stats.issues_found),
      "", "### Issues by Category", "">>
    \o [k \in 1..Len(issue_types_order) |->
           "- " \o issue_types_order[k] \o ": "
              \o ToString(stats.issue_types[issue_types_order[k]])]

NoIssuesReport ==
    <<"# Code Review Report", "", "No issues found in the code review.">>

\* issues or self.issues: None and [] both give self.issues
reported_issues(issues_arg) ==
    IF issues_arg # None /\ issues_arg[1] # <<>>
    THEN issues_arg[1]
    ELSE self_issues

report_lines(found) ==
    IF found = <<>>
    THEN NoIssuesReport
    ELSE <<"# Code Review Report", "">>
         \o summary_lines
         \o <<"", "## Detailed Findings", "">>
         \o detailed_lines(found, grouped_files(found, <<>>))

generate_review_report(issues_arg) ==
    /\ calls.total < call_limit
    /\ result' = Some(report_lines(reported_issues(issues_arg)))
    /\ last_op' = [op |-> "generate_review_report", issues |-> issues_arg]
    /\ calls' = [calls EXCEPT !.generate_review_report = @ + 1,
                              !.total = @ + 1]
    /\ UNCHANGED <<stored, active, call_limit, threads, reviewer>>

\* the issues callers hand to generate_review_report
ReportIssues ==
    {Issue("app.js", 2, "Debug", "Low",
           "console.log statement should be removed in production code"),
     Issue("app.js", 1, "Security", "High",
           "Potential hardcoded credential detected"),
     Issue("tangled.py", 2, "Documentation", "Medium",
           "Missing docstring for function 'BadName'"),
     Issue("app.js", 3, "Security", "High",
           "Potential hardcoded credential detected")}

\* the lists of the issues of a set, each issue once, in every order
RECURSIVE lists_of(_)

lists_of(S) ==
    {<<>>} \cup UNION {{<<i>> \o l : l \in lists_of(S \ {i})} : i \in S}

ReportArguments == {None} \cup {Some(l) : l \in lists_of(ReportIssues)}

InitReview == Constructed /\ call_limit = MaxReviewCalls

NextReview ==
    \/ \E f \in FilePaths, t \in TemplateNames : review_file(f, t)
    \/ \E a \in ReportArguments : generate_review_report(a)

SpecReview == InitReview /\ [][NextReview]_vars

\* ---------------------------------------------------- _calculate_complexity

\* the nodes met below a function: the statements and expressions the
\* calculation tells apart, and nested functions
Subnodes ==
    {Statement(t) : t \in {"If", "While", "For", "AsyncFor", "IfExp",
                           "ExceptHandler", "match_case", "FunctionDef"}}
    \cup {Subnode("BoolOp", op, n) : op \in {"And", "Or"}, n \in {2, 3}}

RECURSIVE subtrees(_)

\* the sequences of up to n nodes
subtrees(n) ==
    IF n = 0
    THEN {<<>>}
    ELSE subtrees(n - 1)
         \cup {Append(t, x) : t \in {u \in subtrees(n - 1) : Len(u) = n - 1},
                              x \in Subnodes}

\* one call of _calculate_complexity on a function with the given nodes
\* below it
complexity_calculated(subnodes) ==
    /\ calls.total < call_limit
    /\ last_op' = [op |-> "calculate_complexity",
                   node |-> Node("FunctionDef", Some("BadName"), Some(1),
                                 TRUE, subnodes)]
    /\ result' = Some(calculate_complexity(last_op'.node))
    /\ calls' = [calls EXCEPT !.total = @ + 1]
    /\ UNCHANGED <<stored, active, call_limit, threads, reviewer>>

InitComplexity == Constructed /\ call_limit = 1

NextComplexity == \E t \in subtrees(MaxSubnodes) : complexity_calculated(t)

SpecComplexity == InitComplexity /\ [][NextComplexity]_vars

\* ----------------------------------------------------------------- claims

\* the category the specification counts an issue_type under: itself when
\* it is one of the five built-in categories, "other" when it is not
claimed_type(issue_type) ==
    IF issue_type \in BuiltInTypes THEN issue_type ELSE "other"

\* whether a record_issue call supplies a line number or a description
supplied(line_number, description) ==
    line_number # None \/ description # None

\* issue_details of a per-file dict, empty while the key is absent
details_of(fm) ==
    IF "issue_details" \in DOMAIN fm THEN fm.issue_details ELSE <<>>

\* C1: in every snapshot get_metrics returns, issues.total is the sum of the
\* five category counters, which is the number of record_issue calls so far.
C1_TotalIsSumOfCategories ==
    last_op.op = "get_metrics" =>
        /\ result[1].issues["total"] = SumOver(result[1].issues, BuiltInTypes)
        /\ result[1].issues["total"] = R(calls.record_issue)

\* C2: get_metrics is read-only: a get_metrics step leaves the coverage
\* counters, the issue counters, the file metrics and the timing samples as
\* they were, and a snapshot taken right after another one agrees with it on
\* every field but review_end_time and total_duration_seconds.
C2_GetMetricsReadOnly ==
    [][last_op'.op = "get_metrics" =>
        /\ \A k \in {"files_reviewed", "lines_reviewed", "total_files",
                    "total_lines"} : coverage'[k] = coverage[k]
        /\ \A t \in BuiltInTypes : issues'[t] = issues[t]
        /\ file_metrics' = file_metrics
        /\ timing' = timing
        /\ last_op.op = "get_metrics" =>
              [result'[1] EXCEPT !.review_end_time = 0,
                                 !.total_duration_seconds = 0]
              = [result[1] EXCEPT !.review_end_time = 0,
                                  !.total_duration_seconds = 0]]_vars

\* C3: in every reachable state, record_issue with a category outside the
\* five built-in ones completes without error, adds exactly 1 to the global
\* counter "other" and leaves the other four global counters unchanged.
C3_UnknownCategoryCountsAsOther ==
    [][(last_op'.op = "record_issue"
        /\ last_op'.issue_type \notin BuiltInTypes) =>
        /\ last_op'.raised = None
        /\ issues'["other"] = RAdd(issues["other"], R(1))
        /\ \A t \in BuiltInTypes \ {"other"} : issues'[t] = issues[t]]_vars

\* C4: files_reviewed is the number of record_file_review calls made and
\* lines_reviewed the sum of their lines_reviewed arguments, calls that
\* repeat a filename included.
C4_ReviewsCountedWithoutDedup ==
    /\ coverage.files_reviewed = calls.record_file_review
    /\ coverage.lines_reviewed = calls.lines_reviewed

\* a filename was recorded twice and both calls were counted
C4_Witness ==
    /\ last_op.op = "record_file_review"
    /\ calls.record_file_review = 2
    /\ DOMAIN file_metrics = {last_op.filename}
    /\ coverage.files_reviewed = 2
    /\ coverage.lines_reviewed = 2

\* C5: record_file_review on a filename that already has a FileMetric does
\* not touch its review_time.
C5_ReviewKeepsReviewTime ==
    [][(last_op'.op = "record_file_review"
        /\ last_op'.filename \in DOMAIN file_metrics) =>
        file_metrics'[last_op'.filename].review_time
            = file_metrics[last_op'.filename].review_time]_vars

\* C6 as stated: none of files_reviewed, lines_reviewed, total_files and
\* total_lines is ever smaller than it was in an earlier state.
C6_AllCountersMonotone ==
    [][\A k \in {"files_reviewed", "lines_reviewed", "total_files",
                 "total_lines"} : coverage'[k] >= coverage[k]]_vars

\* C6 as amended: files_reviewed and lines_reviewed never decrease, and
\* total_files and total_lines are changed by set_total_codebase_size only,
\* which sets them to its arguments whatever they were.
C6_ReviewedCountersMonotone ==
    [][/\ coverage'.files_reviewed >= coverage.files_reviewed
       /\ coverage'.lines_reviewed >= coverage.lines_reviewed
       /\ IF last_op'.op = "set_total_codebase_size"
          THEN /\ coverage'.total_files = last_op'.files
               /\ coverage'.total_lines = last_op'.lines
          ELSE /\ coverage'.total_files = coverage.total_files
               /\ coverage'.total_lines = coverage.total_lines]_vars

\* the reviewed counters have grown and the codebase size was then set to 0
C6_Witness ==
    /\ last_op.op = "set_total_codebase_size"
    /\ coverage.files_reviewed = 2
    /\ coverage.lines_reviewed >= 1
    /\ coverage.total_files = 0
    /\ coverage.total_lines = 0

\* C7: record_issue for a filename without a FileMetric adds 1 to the global
\* counter of the issue's category, creates no FileMetric and changes no
\* FileMetric.
C7_IssueForUnknownFile ==
    [][(last_op'.op = "record_issue"
        /\ last_op'.filename \notin DOMAIN file_metrics) =>
        /\ issues'[claimed_type(last_op'.issue_type)]
              = RAdd(issues[claimed_type(last_op'.issue_type)], R(1))
        /\ file_metrics' = file_metrics]_vars

\* C8: record_issue for a filename with a FileMetric adds 1 to exactly that
\* file's counter of the issue's category and, if and only if a line number
\* or a description is supplied, appends exactly one entry with that line and
\* description at the end of the file's issue_details, keeping the entries
\* already there in place.
C8_IssueForKnownFile ==
    [][(last_op'.op = "record_issue"
        /\ last_op'.filename \in DOMAIN file_metrics) =>
        LET f == last_op'.filename
            old == details_of(file_metrics[f])
            new == details_of(file_metrics'[f])
        IN  /\ last_op'.raised = None
            /\ file_metrics'[f].issues =
                  [file_metrics[f].issues EXCEPT
                      ![claimed_type(last_op'.issue_type)] = @ + 1]
            /\ \A g \in DOMAIN file_metrics \ {f} :
                  file_metrics'[g] = file_metrics[g]
            /\ IF supplied(last_op'.line_number, last_op'.description)
               THEN /\ Len(new) = Len(old) + 1
                    /\ SubSeq(new, 1, Len(old)) = old
                    /\ new[Len(new)].line = last_op'.line_number
                    /\ new[Len(new)].description = last_op'.description
               ELSE new = old]_vars

\* C9: when record_issue is called with a category outside the five built-in
\* ones, the entry appended to the file's issue_details keeps the caller's
\* category.
C9_DetailKeepsCallerCategory ==
    [][(/\ last_op'.op = "record_issue"
        /\ last_op'.issue_type \notin BuiltInTypes
        /\ last_op'.filename \in DOMAIN file_metrics
        /\ Len(details_of(file_metrics'[last_op'.filename]))
              > Len(details_of(file_metrics[last_op'.filename]))) =>
        LET new == details_of(file_metrics'[last_op'.filename])
        IN  new[Len(new)].type = last_op'.issue_type]_vars

\* C10: when a timed call tied to a filename completes and the file has a
\* FileMetric at that moment, the file's review_time becomes the elapsed
\* value, whatever it was before (the last observation wins) and whenever
\* the wrapper was entered; when the file has no FileMetric, or the call is
\* tied to no file, no FileMetric is created or changed.
C10_TimedSetsReviewTime ==
    [][last_op'.op = "timed_return" =>
        IF /\ last_op'.filename # None
           /\ last_op'.filename[1] \in DOMAIN file_metrics
        THEN /\ DOMAIN file_metrics' = DOMAIN file_metrics
             /\ file_metrics'[last_op'.filename[1]] =
                   [file_metrics[last_op'.filename[1]] EXCEPT
                       !.review_time = Some(last_op'.elapsed_time)]
             /\ \A g \in DOMAIN file_metrics \ {last_op'.filename[1]} :
                   file_metrics'[g] = file_metrics[g]
        ELSE file_metrics' = file_metrics]_vars

\* a.py is registered, two timed calls have completed with elapsed values 1
\* then 2, the second one tied to a.py, and review_time is the second value
C10_Witness ==
    /\ last_op.op = "timed_return"
    /\ last_op.filename = Some("a.py")
    /\ calls.timed = 2
    /\ "parsing" \in DOMAIN timing
    /\ timing["parsing"] = <<1, 2>>
    /\ "a.py" \in DOMAIN file_metrics
    /\ file_metrics["a.py"].review_time = Some(2)

\* the samples recorded for a timing category, none while the key is absent
samples_of(t, category) ==
    IF category \in DOMAIN t THEN t[category] ELSE <<>>

\* C11: the timing samples are append-only: a timed call that returns
\* appends exactly its elapsed time to the end of its own category's list
\* (creating the category on first use) and leaves every other category's
\* list as it was; every other step leaves all the lists as they were.
C11_TimingAppendOnly ==
    [][IF last_op'.op = "timed_return"
       THEN /\ DOMAIN timing' = DOMAIN timing \cup {last_op'.category}
            /\ timing'[last_op'.category] =
                   Append(samples_of(timing, last_op'.category),
                          last_op'.elapsed_time)
            /\ \A c \in DOMAIN timing \ {last_op'.category} :
                   timing'[c] = timing[c]
       ELSE timing' = timing]_vars

\* a second sample, smaller than the first, was appended to "parsing" while
\* "analysis" holds a sample of its own
C11_Witness ==
    /\ last_op.op = "timed_return"
    /\ last_op.category = "parsing"
    /\ samples_of(timing, "parsing") = <<2, 1>>
    /\ samples_of(timing, "analysis") = <<1>>

\* C12: after record_file_review(f, r, t) the per-file dict of f has
\* lines_reviewed = r, total_lines = t and coverage_percent = r / t * 100
\* when t > 0, and coverage_percent = 100 when t = 0.
C12_FileMetricAfterReview ==
    last_op.op = "record_file_review" =>
        LET fm == file_metrics[last_op.filename]
            r  == last_op.lines_reviewed
            t  == last_op.total_lines
        IN  /\ fm.lines_reviewed = r
            /\ fm.total_lines = t
            /\ fm.coverage_percent[2] > 0
            /\ IF t > 0
               THEN fm.coverage_percent[1] * t
                       = 100 * r * fm.coverage_percent[2]
               ELSE fm.coverage_percent = <<100, 1>>

\* a file of no lines was recorded with reviewed lines, after a half
\* reviewed one
C12_Witness ==
    /\ last_op.op = "record_file_review"
    /\ last_op.total_lines = 0
    /\ last_op.lines_reviewed = 2
    /\ \E f \in DOMAIN file_metrics :
          /\ f # last_op.filename
          /\ file_metrics[f].coverage_percent = <<50, 1>>

\* C13: in every snapshot file_coverage_percent is files_reviewed /
\* total_files * 100 (0 when total_files = 0) and line_coverage_percent is
\* lines_reviewed / total_lines * 100 (0 when total_lines = 0), of the
\* counters as they stand when the snapshot is taken.
C13_SnapshotCoveragePercent ==
    last_op.op = "get_metrics" =>
        LET c  == result[1].coverage
            fp == c["file_coverage_percent"]
            lp == c["line_coverage_percent"]
        IN  /\ fp[2] > 0 /\ lp[2] > 0
            /\ IF coverage.total_files = 0
               THEN fp = <<0, 1>>
               ELSE fp[1] * coverage.total_files
                       = 100 * calls.record_file_review * fp[2]
            /\ IF coverage.total_lines = 0
               THEN lp = <<0, 1>>
               ELSE lp[1] * coverage.total_lines
                       = 100 * calls.lines_reviewed * lp[2]

\* a snapshot of one file of a codebase of two, with one line of four
C13_Witness ==
    /\ last_op.op = "get_metrics"
    /\ coverage.total_files = 2 /\ coverage.total_lines = 4
    /\ result[1].coverage["file_coverage_percent"] = <<50, 1>>
    /\ result[1].coverage["line_coverage_percent"] = <<25, 1>>

\* C14: in every snapshot issues_per_1000_lines is the number of issues
\* recorded so far / lines_reviewed * 1000, and 0 when lines_reviewed = 0;
\* for every snapshot taken, not only the first one.
C14_SnapshotIssueDensity ==
    last_op.op = "get_metrics" =>
        LET d == result[1].issues["issues_per_1000_lines"]
        IN  /\ d[2] > 0
            /\ IF calls.lines_reviewed = 0
               THEN d = <<0, 1>>
               ELSE d[1] * calls.lines_reviewed
                       = 1000 * calls.record_issue * d[2]

\* the positions of a list of issues that hold a Security issue of
\* severity High at a line
security_issues_at(found, line) ==
    {k \in 1..Len(found) : /\ found[k].category = "Security"
                           /\ found[k].severity = "High"
                           /\ found[k].line = line}

\* C15: for any file content with an assignment of a literal to password,
\* whatever the extension of the file, review_file returns exactly one
\* Security issue of severity High at the 1-based line of the assignment.
C15_PasswordYieldsOneSecurityIssue ==
    (last_op.op = "review_file"
        /\ SourceFiles[last_op.file_path].content # None) =>
        LET content == SourceFiles[last_op.file_path].content[1]
        IN  \A l \in 1..Len(content) :
               "password" \in content[l].matches =>
                  Cardinality(security_issues_at(result[1], l)) = 1

\* what the rule bundle of a file's extension finds in it
bundle_issues(file_path) ==
    IF reviewed(file_path).raised = None
    THEN reviewed(file_path).issues
    ELSE <<>>

\* whether <template_name>.md exists
template_exists(template_name) == template_name \in DOMAIN TemplateFiles

\* whether <template_name>.md exists and has a "## " line
template_usable(template_name) ==
    /\ template_exists(template_name)
    /\ \E k \in 1..Len(TemplateFiles[template_name]) :
          TemplateFiles[template_name][k].kind = "section"

\* C16 as stated: review_file called with a template name that cannot be
\* loaded still runs the rule bundle of the file's extension and returns
\* the issues those rules find.
C16_MissingTemplateStillReviews ==
    (last_op.op = "review_file" /\ ~template_exists(last_op.template_name))
        => result = Some(bundle_issues(last_op.file_path))

\* C16: review_file called with a template name that has no file, or whose
\* file has no section, runs no check: it returns no issue, leaves the
\* reviewer's issue list empty and leaves the statistics as they were.
C16_FailedTemplateSkipsReview ==
    [][(last_op'.op = "review_file"
          /\ ~template_usable(last_op'.template_name)) =>
          /\ result' = Some(<<>>)
          /\ self_issues' = <<>>
          /\ stats' = stats
          /\ issue_types_order' = issue_types_order]_vars

\* a file with a credential in it reviewed with a missing template, after a
\* review that counted
C16_Witness ==
    /\ last_op.op = "review_file"
    /\ last_op.template_name = "missing"
    /\ last_op.file_path = "doc.py"
    /\ bundle_issues("doc.py") # <<>>
    /\ result = Some(<<>>)
    /\ stats.files_reviewed = 1 /\ stats.issues_found = 2

RECURSIVE is_subsequence(_, _)

\* whether the members of a occur in b in the order of a
is_subsequence(a, b) ==
    IF a = <<>>
    THEN TRUE
    ELSE IF b = <<>>
    THEN FALSE
    ELSE IF Head(a) = Head(b)
    THEN is_subsequence(Tail(a), Tail(b))
    ELSE is_subsequence(a, Tail(b))

\* C17: the reviewer's issue list holds every issue review_file has
\* returned for the files reviewed so far, in file-processing order: none
\* is removed or reordered by a later review_file call.
C17_IssuesAccumulate ==
    is_subsequence(calls.accepted, self_issues)

\* C18: generate_review_report([]) returns the fixed "no issues found" text
\* in every reviewer state.
C18_EmptyListGivesNoIssuesReport ==
    (last_op.op = "generate_review_report" /\ last_op.issues = Some(<<>>))
        => result = Some(NoIssuesReport)

\* the list a report is made of: the argument, or the reviewer's list when
\* no argument is given
report_input == IF last_op.issues = None THEN self_issues ELSE last_op.issues[1]

file_header(f) == "### File: " \o f

severity_header(s) == "#### " \o s \o " Severity Issues"

\* the last position up to p of a report that holds one of the texts, 0
\* when there is none
last_position(lines, p, texts) ==
    LET P == {q \in 1..p : lines[q] \in texts}
    IN  IF P = {} THEN 0 ELSE CHOOSE q \in P : \A r \in P : r <= q

\* whether position p of a report lies in the block of file f
in_block(lines, p, f, files) ==
    LET q == last_position(lines, p, {file_header(g) : g \in files})
    IN  q > 0 /\ lines[q] = file_header(f)

\* whether position p of a report lies in the subsection of severity s of
\* the block of file f
in_subsection(lines, p, f, s, files) ==
    LET q == last_position(lines, p, {file_header(g) : g \in files})
        h == last_position(lines, p, {severity_header(t) :
                                         t \in {"High", "Medium", "Low"}})
    IN  in_block(lines, p, f, files) /\ h > q /\ lines[h] = severity_header(s)

\* the positions of a report that render an issue in its own subsection
positions_of(lines, issue, files) ==
    {p \in 1..Len(lines) :
        /\ lines[p] = issue_lines(issue)[1]
        /\ in_subsection(lines, p, issue.file, issue.severity, files)}

\* the first position of a list that holds an issue of file f
first_seen(found, f) ==
    CHOOSE k \in 1..Len(found) :
        found[k].file = f /\ \A j \in 1..(k - 1) : found[j].file # f

severity_rank(s) == CHOOSE k \in 1..3 : <<"High", "Medium", "Low">>[k] = s

\* C19: a report of a list of issues renders every issue of the list as
\* exactly one line, inside the block of its file and the subsection of
\* its severity; the file blocks come in first-seen order, the subsections
\* of a block in the order High, Medium, Low, the issues of a subsection in
\* the order of the list; a severity without issues for a file has no
\* subsection in the block of the file.
C19_ReportStructure ==
    (last_op.op = "generate_review_report" /\ report_input # <<>>) =>
        LET found == report_input
            lines == result[1]
            files == {found[k].file : k \in 1..Len(found)}
            severities == {"High", "Medium", "Low"}
            block(f) == {p \in 1..Len(lines) : lines[p] = file_header(f)}
            subsection(f, s) ==
                {p \in 1..Len(lines) :
                    lines[p] = severity_header(s)
                       /\ in_block(lines, p, f, files)}
            rendered == {issue_lines(found[k])[1] : k \in 1..Len(found)}
        IN  /\ \A k \in 1..Len(found) :
                  Cardinality(positions_of(lines, found[k], files)) = 1
            /\ Cardinality({p \in 1..Len(lines) : lines[p] \in rendered})
                  = Len(found)
            /\ \A f \in files : Cardinality(block(f)) = 1
            /\ \A f, g \in files :
                  first_seen(found, f) < first_seen(found, g) =>
                     \A p \in block(f), q \in block(g) : p < q
            /\ \A f \in files, s \in severities :
                  Cardinality(subsection(f, s)) =
                     IF \E k \in 1..Len(found) :
                           found[k].file = f /\ found[k].severity = s
                     THEN 1
                     ELSE 0
            /\ \A f \in files, s, t \in severities :
                  severity_rank(s) < severity_rank(t) =>
                     \A p \in subsection(f, s), q \in subsection(f, t) : p < q
            /\ \A j, k \in 1..Len(found) :
                  (j < k /\ found[j].file = found[k].file
                         /\ found[j].severity = found[k].severity) =>
                     \A p \in positions_of(lines, found[j], files),
                        q \in positions_of(lines, found[k], files) : p < q

\* a report of four issues of two files, given with a Low issue first, the
\* other file second and the later line of two High issues before the
\* earlier one
C19_Witness ==
    /\ last_op.op = "generate_review_report"
    /\ last_op.issues # None
    /\ Len(last_op.issues[1]) = 4
    /\ last_op.issues[1][1].severity = "Low"
    /\ last_op.issues[1][2].file = "tangled.py"
    /\ last_op.issues[1][3].line = 3
    /\ last_op.issues[1][4].line = 1
    /\ Len(result[1]) > Len(NoIssuesReport)

\* whether a file is Python text that ast.parse rejects
unparsable(file_path) ==
    /\ lower(SourceFiles[file_path].ext) = ".py"
    /\ SourceFiles[file_path].content # None
    /\ SourceFiles[file_path].syntax_error # None

\* the single issue of a file that does not parse
is_syntax_issue(found, file_path) ==
    /\ Len(found) = 1
    /\ found[1].file = file_path
    /\ found[1].category = "Syntax"
    /\ found[1].severity = "High"
    /\ found[1].line = SourceFiles[file_path].syntax_error[1]

\* C20 as stated: for a .py file whose content fails to parse review_file
\* returns exactly one issue, of category Syntax and severity High at the
\* failing line, and no issue of any other rule.
C20_ParseFailureGivesSyntaxIssue ==
    (last_op.op = "review_file" /\ unparsable(last_op.file_path))
        => is_syntax_issue(result[1], last_op.file_path)

\* what review_file returns for a file and a template name
returned_issues(file_path, template_name) ==
    IF template_usable(template_name) THEN bundle_issues(file_path) ELSE <<>>

\* C20: with a template that loads, review_file of a .py file whose content
\* fails to parse returns exactly one issue, of category Syntax and
\* severity High at the failing line, and counts the file and the issue;
\* the review_file call that follows returns what it returns in any state
\* and counts what it returns.
C20_ParseFailureWithTemplate ==
    [][/\ (last_op'.op = "review_file"
            /\ unparsable(last_op'.file_path)
            /\ template_usable(last_op'.template_name)) =>
            /\ is_syntax_issue(result'[1], last_op'.file_path)
            /\ stats'.files_reviewed = stats.files_reviewed + 1
            /\ stats'.issues_found = stats.issues_found + 1
       /\ (last_op.op = "review_file"
            /\ unparsable(last_op.file_path)
            /\ last_op'.op = "review_file") =>
            /\ result' = Some(returned_issues(last_op'.file_path,
                                              last_op'.template_name))
            /\ stats'.issues_found = stats.issues_found + Len(result'[1])]_vars

\* a file with a credential in it reviewed after a file that did not parse
C20_Witness ==
    /\ last_op.op = "review_file"
    /\ last_op.file_path = "doc.py"
    /\ Len(calls.accepted) = 2
    /\ is_syntax_issue(<<calls.accepted[1]>>, "broken.py")
    /\ result = Some(<<calls.accepted[2]>>)
    /\ result[1][1].category = "Security"

\* C21: review_file on a file that cannot be read raises no exception,
\* returns an empty issue list and leaves files_reviewed, issues_found and
\* issue_types exactly as they were before the call.
C21_UnreadableFileLeavesStats ==
    [][(last_op'.op = "review_file"
          /\ SourceFiles[last_op'.file_path].content = None) =>
          /\ result' = Some(<<>>)
          /\ stats' = stats
          /\ issue_types_order' = issue_types_order]_vars

\* a file that cannot be read reviewed with a template that loads, after a
\* review that counted a file and its issues
C21_Witness ==
    /\ last_op.op = "review_file"
    /\ last_op.file_path = "gone.py"
    /\ last_op.template_name = "general"
    /\ last_op.raised = Some("OSError")
    /\ result = Some(<<>>)
    /\ stats.files_reviewed = 1 /\ stats.issues_found = 3

\* C22: a .js or .ts file yields only issues of the credential check
\* (Security) and of the console.log check (Debug); a file of any other
\* extension but .py yields only Style issues, of the line length and
\* trailing white space checks.
C22_BundleByExtension ==
    last_op.op = "review_file" =>
        LET file_ext == lower(SourceFiles[last_op.file_path].ext)
            found == result[1]
        IN  /\ file_ext \in {".js", ".ts"} =>
                  \A k \in 1..Len(found) :
                     \/ /\ found[k].category = "Security"
                        /\ found[k].message
                              = "Potential hardcoded credential detected"
                     \/ /\ found[k].category = "Debug"
                        /\ found[k].message
                              = "console.log statement should be removed in production code"
            /\ file_ext \notin {".py", ".js", ".ts"} =>
                  \A k \in 1..Len(found) :
                     /\ found[k].category = "Style"
                     /\ found[k].message
                           # "Potential hardcoded credential detected"

\* a text file with a credential in it that yields its two Style issues
C22_Witness ==
    /\ last_op.op = "review_file"
    /\ last_op.file_path = "notes.txt"
    /\ "password" \in SourceFiles["notes.txt"].content[1][1].matches
    /\ Len(result[1]) = 2
    /\ result[1][1].category = "Style" /\ result[1][2].category = "Style"

RECURSIVE extra_operands(_, _)

\* len(values) - 1 summed over the positions S of a sequence of nodes
extra_operands(subnodes, S) ==
    IF S = {}
    THEN 0
    ELSE LET k == CHOOSE x \in S : TRUE
         IN  subnodes[k].values - 1 + extra_operands(subnodes, S \ {k})

\* C23: the complexity of a function is 1, plus 1 for every if, while and
\* for statement anywhere below it, plus k - 1 for every and-chain of k
\* operands; or-chains, conditional expressions, exception handlers and
\* match arms add nothing: with n if, while and for statements and no
\* and-chain it is n + 1, and it is always at least 1.
C23_ComplexityFormula ==
    last_op.op = "calculate_complexity" =>
        LET below == last_op.node.subnodes
            loops == {k \in 1..Len(below) :
                         below[k].type \in {"If", "While", "For"}}
            chains == {k \in 1..Len(below) :
                          below[k].type = "BoolOp" /\ below[k].op = "And"}
        IN  /\ result[1] = 1 + Cardinality(loops)
                               + extra_operands(below, chains)
            /\ chains = {} => result[1] = Cardinality(loops) + 1
            /\ result[1] >= 1

\* a function with a loop, an and-chain of three operands and an or-chain
C23_Witness ==
    /\ last_op.op = "calculate_complexity"
    /\ last_op.node.subnodes = <<Statement("While"),
                                 Subnode("BoolOp", "And", 3),
                                 Subnode("BoolOp", "Or", 2)>>
    /\ result = Some(4)

\* C24: reviewing the same content twice gives the same ordered issue
\* list: what review_file returns depends only on the file path, its
\* content and the template, not on the reviews made before. A call
\* returns what the same call returns on a fresh reviewer, and a call made
\* twice in a row returns the same list twice.
C24_ReviewIsRepeatable ==
    [][last_op'.op = "review_file" =>
          /\ result' = Some(returned_issues(last_op'.file_path,
                                            last_op'.template_name))
          /\ (/\ last_op.op = "review_file"
              /\ last_op.file_path = last_op'.file_path
              /\ last_op.template_name = last_op'.template_name) =>
                 result' = result]_vars

\* the second of two reviews of the same file in a row, with issues from
\* three checks, after a review of another file
C24_Witness ==
    /\ last_op.op = "review_file"
    /\ last_op.file_path = "tangled.py"
    /\ Len(result[1]) = 3
    /\ calls.review_file = 3
    /\ Len(calls.accepted) = 8
    /\ calls.accepted[1].file = "app.js"
    /\ SubSeq(calls.accepted, 3, 5) = SubSeq(calls.accepted, 6, 8)

\* the place of a file among the files in the order they were first
\* recorded
recorded_place(f) == CHOOSE k \in 1..Len(file_order) : file_order[k] = f

\* whether the entry of file f with n issues comes before that of g with m
listed_before(f, n, g, m) ==
    n > m \/ (n = m /\ recorded_place(f) < recorded_place(g))

\* C25: the summary lists at most five files under "Top files by issue
\* count", only files with at least one issue, each with its issue count,
\* sorted by issue count descending, ties in the order the files were first
\* recorded; a file with issues that is not listed comes after the fifth.
C25_TopFiles ==
    last_op.op = "print_summary" =>
        LET top == result[1].top_files
        IN  /\ Len(top) <= 5
            /\ \A k \in 1..Len(top) :
                  /\ top[k][1] \in DOMAIN file_metrics
                  /\ top[k][2] = total_issues(file_metrics[top[k][1]])
                  /\ top[k][2] >= 1
            /\ \A j, k \in 1..Len(top) :
                  j < k => listed_before(top[j][1], top[j][2],
                                         top[k][1], top[k][2])
            /\ \A f \in DOMAIN file_metrics :
                  (total_issues(file_metrics[f]) >= 1
                     /\ \A k \in 1..Len(top) : top[k][1] # f) =>
                     /\ Len(top) = 5
                     /\ listed_before(top[5][1], top[5][2],
                                      f, total_issues(file_metrics[f]))

\* six files recorded against the order of their names, each with one
\* issue but the third, which has two: it is listed first, then the first
\* four of the others as recorded, and the last recorded is left out
C25_Witness ==
    /\ last_op.op = "print_summary"
    /\ file_order = <<"f.py", "e.py", "d.py", "c.py", "b.py", "a.py">>
    /\ total_issues(file_metrics["a.py"]) = 1
    /\ result[1].top_files = <<<<"d.py", 2>>, <<"f.py", 1>>, <<"e.py", 1>>,
                               <<"c.py", 1>>, <<"b.py", 1>>>>

\* whether a caller has made its counter increment and not yet finished
\* the call
mid_call(th) == threads[th].pc \in {"count_file", "append_detail", "store_file"}

\* C26: when two callers run record_issue and record_file_review on one
\* recorder at once, no pair interleaves and no update is lost: no other
\* caller writes to the recorder between a caller's counter increment and
\* the end of its call, and whenever no call is running the counters are
\* those of the calls made, as after any serial order of them.
C26_ConcurrentCallsAreAtomic ==
    [][/\ \A th \in Threads :
             (mid_call(th) /\ threads'[th] = threads[th]) =>
                UNCHANGED <<coverage, issues, file_metrics>>
       /\ (\A th \in Threads : threads'[th].pc = "idle") =>
             /\ SumOver(issues', BuiltInTypes) = R(calls'.record_issue)
             /\ coverage'.files_reviewed = calls'.record_file_review
             /\ coverage'.lines_reviewed = calls'.lines_reviewed]_vars

\* the positions of a list of issues that hold a Documentation issue of
\* severity Medium
documentation_issues(found) ==
    {k \in 1..Len(found) : /\ found[k].category = "Documentation"
                           /\ found[k].severity = "Medium"}

\* whether a file is Python text that ast.parse accepts
parsable(file_path) ==
    /\ lower(SourceFiles[file_path].ext) = ".py"
    /\ SourceFiles[file_path].content # None
    /\ SourceFiles[file_path].syntax_error = None

\* C27: with a template that loads, the review of a .py file that parses
\* returns one Documentation issue of severity Medium for every module,
\* class and function without a docstring, functions whose name starts
\* with an underscore excepted, together with the issues of the other
\* rules: for a module without docstring that has a credential in it, the
\* Documentation issue of the module and the Security issue.
C27_DocstringIssuePerNode ==
    (last_op.op = "review_file"
        /\ template_usable(last_op.template_name)
        /\ parsable(last_op.file_path)) =>
        LET file == SourceFiles[last_op.file_path]
            undocumented == {n \in 1..Len(file.tree) :
                                lacks_docstring(file.tree[n])}
        IN  /\ Cardinality(documentation_issues(result[1]))
                  = Cardinality(undocumented)
            /\ \A l \in 1..Len(file.content[1]) :
                  "password" \in file.content[1][l].matches =>
                     security_issues_at(result[1], l) # {}

\* the positions of a report that render an issue of a list, of any
\* category or of one
rendered_positions(lines, found, categories) ==
    {p \in 1..Len(lines) :
        \E k \in 1..Len(found) : /\ lines[p] = issue_lines(found[k])[1]
                                 /\ found[k].category \in categories}

Categories ==
    {"Security", "Documentation", "Style", "Maintainability", "Debug",
     "Syntax", "Other"}

\* C28: in every report of the reviewer's own list the summary agrees with
\* the detailed findings: the total issues figure is the number of issue
\* lines rendered below it, and the count of each category is the number
\* of rendered issues of that category.
C28_SummaryAgreesWithDetails ==
    (last_op.op = "generate_review_report"
        /\ last_op.issues = None
        /\ result # Some(NoIssuesReport)) =>
        LET lines == result[1]
            total == Cardinality(rendered_positions(lines, self_issues,
                                                    Categories))
            count(c) == Cardinality(rendered_positions(lines, self_issues,
                                                       {c}))
        IN  /\ \E p \in 1..Len(lines) :
                  lines[p] = "- Total issues found: " \o ToString(total)
            /\ \A c \in Categories :
                  IF count(c) > 0
                  THEN \E p \in 1..Len(lines) :
                          lines[p] = "- " \o c \o ": " \o ToString(count(c))
                  ELSE c \notin DOMAIN stats.issue_types

\* C29: after any sequence of review_file calls issues_found is the sum of
\* the counts of issue_types and the number of issues in the lists the
\* calls returned, and files_reviewed is the number of calls that read and
\* analysed their file: all but those that returned early on a template
\* or I/O failure.
C29_StatsAgreeWithCalls ==
    /\ stats.issues_found
          = sum_counts(stats.issue_types, DOMAIN stats.issue_types)
    /\ stats.issues_found = Len(calls.accepted)
    /\ stats.files_reviewed = calls.files_read

RECURSIVE file_counts(_, _)

\* the per-file counters of a category summed over a set of files
file_counts(t, files) ==
    IF files = {}
    THEN 0
    ELSE LET f == CHOOSE x \in files : TRUE
         IN  file_metrics[f].issues[t] + file_counts(t, files \ {f})

\* C30: in every recorder state and for each of the five categories the
\* per-file counters of the category sum to at most its global counter,
\* and the issue_details of a file have at most as many entries as the
\* file's counters sum to.
C30_FileCountersWithinGlobal ==
    /\ \A t \in BuiltInTypes :
          file_counts(t, DOMAIN file_metrics) * issues[t][2] <= issues[t][1]
    /\ \A f \in DOMAIN file_metrics :
          Len(details_of(file_metrics[f])) <= total_issues(file_metrics[f])

\* a file with two issues, one of them with details, beside an issue of a
\* file that is not recorded
C30_Witness ==
    /\ "a.py" \in DOMAIN file_metrics
    /\ file_metrics["a.py"].issues["security"] = 1
    /\ Len(details_of(file_metrics["a.py"])) = 1
    /\ issues["security"] = <<2, 1>>
    /\ calls.total = 3

====
